---------------------------- MODULE Spec2Model ----------------------------
(***************************************************************************)
(* Model of app.py: a Streamlit script that extracts per-page text from a  *)
(* PDF (extract_text_from_pdf), saves it as CSV (save_to_csv) and computes *)
(* TF / IDF / TF-IDF / term-occurrence sheets from an uploaded CSV         *)
(* (calculate_tf_idf), through fixed file names in the working directory.  *)
(*                                                                         *)
(* Text is a sequence of character codes (ASCII).  Real numbers are        *)
(* fixed-point integers with Scale units per 1.0.                          *)
(***************************************************************************)
EXTENDS Integers, Sequences, FiniteSets, TLC

\* ------------------------------------------------------------------------
\* Bounds and value domains
\* ------------------------------------------------------------------------

\* Largest number of pages of a PDF / rows of an uploaded CSV.
MaxPages == 3

\* Largest number of rows of an uploaded CSV when two sessions run together.
MaxConcRows == 2

\* Fixed-point unit of the float64 values of the sheets (1.0 == Scale).
Scale == 10^3

\* Unit in which the logarithm is summed before it is rounded to Scale.
FineScale == 10^4

\* Python's None (page.extract_text() found no text) and a str value.
None == [isnull |-> TRUE, text |-> << >>]

Str(t) == [isnull |-> FALSE, text |-> t]

\* What page.extract_text() can return for a page: None, or one of these
\* strings: "the cat sat", "the dog sat", "the cat and the dog", "Cat cat",
\* "a, B", "NA", "42", "".
PageStrings ==
  { <<116, 104, 101, 32, 99, 97, 116, 32, 115, 97, 116>>,
    <<116, 104, 101, 32, 100, 111, 103, 32, 115, 97, 116>>,
    <<116, 104, 101, 32, 99, 97, 116, 32, 97, 110, 100, 32, 116, 104, 101, 32, 100, 111, 103>>,
    <<67, 97, 116, 32, 99, 97, 116>>,
    <<97, 44, 32, 66>>,
    <<78, 65>>,
    <<52, 50>>,
    << >> }

PageResults == {None} \cup {Str(t) : t \in PageStrings}

\* All sequences over S of length at most n.
SeqUpTo(S, n) == UNION {[1..k -> S] : k \in 0..n}

\* ------------------------------------------------------------------------
\* extract_text_from_pdf and save_to_csv
\* ------------------------------------------------------------------------

\* Mutant of the loop: a page without text is skipped instead of recorded.
RECURSIVE ExtractSkippingEmpty(_, _)
ExtractSkippingEmpty(pages, i) ==
  IF i > Len(pages) THEN << >>
  ELSE IF pages[i].isnull THEN ExtractSkippingEmpty(pages, i + 1)
  ELSE <<[page |-> i, text |-> pages[i]]>> \o ExtractSkippingEmpty(pages, i + 1)

extract_skipping_empty(pages) == ExtractSkippingEmpty(pages, 1)

\* The loop body of extract_text_from_pdf from page i on:
\* extracted_text.append([i, page.extract_text()]).
RECURSIVE ExtractFrom(_, _)
ExtractFrom(pages, i) ==
  IF i > Len(pages) THEN << >>
  ELSE <<[page |-> i, text |-> pages[i]]>> \o ExtractFrom(pages, i + 1)

\* enumerate(pdf.pages, start=1)
extract_text_from_pdf(pages) == ExtractFrom(pages, 1)

\* csv.writer writes None as the empty field and a str as itself.
CsvField(v) == IF v.isnull THEN << >> ELSE v.text

\* The data rows save_to_csv writes under the header
\* 'Page Number', 'Extracted Text'.
save_to_csv(extracted_text) ==
  [k \in 1..Len(extracted_text) |->
     [page |-> extracted_text[k].page, text |-> CsvField(extracted_text[k].text)]]

\* ------------------------------------------------------------------------
\* pd.read_csv(csv_path)['Extracted Text'].fillna('')
\* ------------------------------------------------------------------------

\* Of pandas' default NA strings, those a cell of this model can hold:
\* the empty field and "NA".
NaValues == { << >>, <<78, 65>> }

IsNa(t) == t \in NaValues

\* A field the CSV parser converts to a number: one or more digits.
IsNumeric(t) == Len(t) > 0 /\ \A k \in 1..Len(t) : t[k] \in 48..57

\* read_csv's column 'Extracted Text': an NA field becomes NaN (null); the
\* column is numeric when it has a non-NA field and each of them is a number.
read_csv(rows) ==
  [numeric |-> /\ \E k \in 1..Len(rows) : ~IsNa(rows[k].text)
               /\ \A k \in 1..Len(rows) : IsNa(rows[k].text) \/ IsNumeric(rows[k].text),
   cells   |-> [k \in 1..Len(rows) |->
                  IF IsNa(rows[k].text) THEN None ELSE Str(rows[k].text)]]

\* Mutant: the column is used as read, NaN cells included.
fillna_missing(cells) == cells

\* Series.fillna(''): every NaN cell becomes the empty string.
fillna(cells) ==
  [k \in 1..Len(cells) |-> IF cells[k].isnull THEN Str(<< >>) ELSE cells[k]]

\* ------------------------------------------------------------------------
\* TfidfVectorizer(use_idf=True, norm=None).fit_transform
\* ------------------------------------------------------------------------

\* str.lower() on one character (lowercase=True).
Lower(c) == IF c \in 65..90 THEN c + 32 ELSE c

LowerText(t) == [k \in 1..Len(t) |-> Lower(t[k])]

\* \w of the token pattern: digits, letters, underscore.
IsWord(c) == c \in (48..57) \cup (65..90) \cup (97..122) \cup {95}

\* A maximal run of word characters is a token when it has two or more
\* characters: token_pattern (?u)\b\w\w+\b.
EmitRun(run) == IF Len(run) >= 2 THEN <<run>> ELSE << >>

RECURSIVE Scan(_, _, _)
Scan(t, i, run) ==
  IF i > Len(t) THEN EmitRun(run)
  ELSE IF IsWord(t[i]) THEN Scan(t, i + 1, Append(run, t[i]))
  ELSE EmitRun(run) \o Scan(t, i + 1, << >>)

\* build_analyzer(): lowercase, then findall(token_pattern).
Tokenize(t) == Scan(LowerText(t), 1, << >>)

\* Python's str < str: lexicographic by code point.
RECURSIVE LexLess(_, _)
LexLess(a, b) ==
  IF Len(b) = 0 THEN FALSE
  ELSE IF Len(a) = 0 THEN TRUE
  ELSE IF a[1] # b[1] THEN a[1] < b[1]
  ELSE LexLess(Tail(a), Tail(b))

Contains(seq, x) == \E k \in 1..Len(seq) : seq[k] = x

\* _count_vocab: a term gets the next free index the first time it is seen.
RECURSIVE AddTokens(_, _)
AddTokens(vocab, toks) ==
  IF Len(toks) = 0 THEN vocab
  ELSE AddTokens(IF Contains(vocab, toks[1]) THEN vocab ELSE Append(vocab, toks[1]),
                 Tail(toks))

RECURSIVE FirstSeen(_, _)
FirstSeen(vocab, docs) ==
  IF Len(docs) = 0 THEN vocab
  ELSE FirstSeen(AddTokens(vocab, Tokenize(docs[1].text)), Tail(docs))

RECURSIVE InsertSorted(_, _)
InsertSorted(sorted, x) ==
  IF Len(sorted) = 0 THEN <<x>>
  ELSE IF LexLess(x, sorted[1]) THEN <<x>> \o sorted
  ELSE <<sorted[1]>> \o InsertSorted(Tail(sorted), x)

RECURSIVE SortTerms(_)
SortTerms(vocab) ==
  IF Len(vocab) = 0 THEN << >>
  ELSE InsertSorted(SortTerms(Tail(vocab)), vocab[1])

\* Mutant: the features keep their first-seen order.
sort_features_skipped(vocab) == vocab

\* _sort_features: sorted(vocabulary.items()).
sort_features(vocab) == SortTerms(vocab)

\* get_feature_names_out() of the fitted vectorizer.
FeatureNames(docs) == sort_features(FirstSeen(<< >>, docs))

\* Number of occurrences of term in the token list.
RECURSIVE CountOf(_, _)
CountOf(term, toks) ==
  IF Len(toks) = 0 THEN 0
  ELSE (IF toks[1] = term THEN 1 ELSE 0) + CountOf(term, Tail(toks))

\* The count matrix X of CountVectorizer.fit_transform.
CountMatrix(docs, terms) ==
  [d \in 1..Len(docs) |->
     [j \in 1..Len(terms) |-> CountOf(terms[j], Tokenize(docs[d].text))]]

\* _document_frequency(X): per column, the number of non-zero entries.
DocumentFrequency(X, j) == Cardinality({d \in 1..Len(X) : X[d][j] # 0})

\* ln(a/b) for a >= b > 0 in units of 1/FineScale, by the series
\* ln x = 2 (z + z^3/3 + z^5/5 + ...), z = (x - 1)/(x + 1).
RECURSIVE AtanhSeries(_, _, _)
AtanhSeries(p, z, k) ==
  IF p = 0 THEN 0
  ELSE (p \div k) + AtanhSeries((((p * z) \div FineScale) * z) \div FineScale, z, k + 2)

LnFine(a, b) ==
  LET z == ((a - b) * FineScale) \div (a + b)
  IN  2 * AtanhSeries(z, z, 1)

\* np.log(a / b), rounded to the fixed-point unit.
Ln(a, b) == (LnFine(a, b) * Scale + (FineScale \div 2)) \div FineScale

\* Mutant: the weight without the final + 1.
IdfUnshifted(n, df) == Ln(n + 1, df + 1)

\* TfidfTransformer.fit with smooth_idf=True:
\* idf = log((n_samples + 1) / (df + 1)) + 1.
Idf(n, df) == Ln(n + 1, df + 1) + Scale

\* ------------------------------------------------------------------------
\* calculate_tf_idf
\* ------------------------------------------------------------------------

\* A DataFrame as written to one sheet: the header row and the data rows.
Sheet(columns, rows) == [columns |-> columns, rows |-> rows]

NoBook ==
  [TF |-> Sheet(<< >>, << >>), IDF |-> Sheet(<< >>, << >>),
   TFIDF |-> Sheet(<< >>, << >>), Occurrences |-> Sheet(<< >>, << >>)]

\* vectorizer.idf_
IdfScores(X, terms) ==
  [j \in 1..Len(terms) |-> Idf(Len(X), DocumentFrequency(X, j))]

\* TfidfTransformer.transform with norm=None, sublinear_tf=False: X * idf.
TfidfMatrix(X, idf_scores) ==
  [d \in 1..Len(X) |-> [j \in 1..Len(idf_scores) |-> X[d][j] * idf_scores[j]]]

\* Mutant: the comparison is tf >= 0.
DocOccurrencesNonNegative(tf, m) ==
  [j \in 1..m |-> Cardinality({d \in 1..Len(tf) : tf[d][j] >= 0})]

\* doc_occurrences = (tf > 0).sum(axis=0), over m columns.
DocOccurrences(tf, m) ==
  [j \in 1..m |-> Cardinality({d \in 1..Len(tf) : tf[d][j] > 0})]

\* The body of calculate_tf_idf up to the four DataFrames: raised when the
\* vectorizer raises (a numeric column has no .lower(); no term at all is
\* "empty vocabulary"), else the workbook to write.
calculate_tf_idf(rows) ==
  LET col          == read_csv(rows)
      docs         == fillna(col.cells)
      terms        == FeatureNames(docs)
      X            == CountMatrix(docs, terms)
      idf_scores   == IdfScores(X, terms)
      tfidf_matrix == TfidfMatrix(X, idf_scores)
      tf           == tfidf_matrix
      doc_occurrences == DocOccurrences(tf, Len(terms))
  IN  IF col.numeric
        THEN [raised |-> TRUE, error |-> "AttributeError", docs |-> docs, book |-> NoBook]
      ELSE IF Len(terms) = 0
        THEN [raised |-> TRUE, error |-> "ValueError", docs |-> docs, book |-> NoBook]
      ELSE [raised |-> FALSE, error |-> "", docs |-> docs,
            book |-> [TF          |-> Sheet(terms, tf),
                      IDF         |-> Sheet(terms, <<idf_scores>>),
                      TFIDF       |-> Sheet(terms, tfidf_matrix),
                      Occurrences |-> Sheet(terms, <<doc_occurrences>>)]]

\* ------------------------------------------------------------------------
\* State: the working directory and the script runs (one per session)
\* ------------------------------------------------------------------------

Sessions == {1, 2}

VARIABLES
  pc,             \* pc[s]: the statement session s is at
  pdf_in,         \* pdf_in[s]: the bytes behind the URL / of the uploaded PDF
  csv_in,         \* csv_in[s]: the rows of uploaded_csv
  pdf_file,       \* pdf_file[s]: the local pdf_file, "downloaded.pdf" or "uploaded.pdf"
  extracted_text, \* extracted_text[s]: the local extracted_text
  calc,           \* calc[s]: the DataFrames calculate_tf_idf has built
  offered_csv,    \* offered_csv[s]: the data given to the CSV download button
  offered_xlsx,   \* offered_xlsx[s]: the data given to the Excel download button
  error,          \* error[s]: the exception shown by st.error, "" when none
  pdfs,           \* pdfs[name]: the PDF file of that name
  csvs,           \* csvs[name]: the CSV file of that name
  xlsx            \* the file tf_idf_scores.xlsx

vars == <<pc, pdf_in, csv_in, pdf_file, extracted_text, calc, offered_csv,
          offered_xlsx, error, pdfs, csvs, xlsx>>

PdfNames == {"downloaded.pdf", "uploaded.pdf"}

CsvNames == {"extracted_text.csv", "uploaded_text.csv"}

\* A PDF's bytes: parseable with these pages, or not a PDF at all.
PdfContents ==
  {[valid |-> TRUE, pages |-> p] : p \in SeqUpTo(PageResults, MaxPages)}
    \cup {[valid |-> FALSE, pages |-> << >>]}

NoPdf == [exists |-> FALSE, valid |-> FALSE, pages |-> << >>]

NoCsv == [exists |-> FALSE, rows |-> << >>]

NoXlsx == [exists |-> FALSE, book |-> NoBook]

NoCalc == [raised |-> FALSE, error |-> "", docs |-> << >>, book |-> NoBook]

\* The CSV files a user can upload: what the extraction handlers offer.
CsvUploads(n) == {save_to_csv(extract_text_from_pdf(p)) : p \in SeqUpTo(PageResults, n)}

Init ==
  /\ pc = [s \in Sessions |-> "idle"]
  /\ pdf_in = [s \in Sessions |-> [valid |-> FALSE, pages |-> << >>]]
  /\ csv_in = [s \in Sessions |-> << >>]
  /\ pdf_file = [s \in Sessions |-> ""]
  /\ extracted_text = [s \in Sessions |-> << >>]
  /\ calc = [s \in Sessions |-> NoCalc]
  /\ offered_csv = [s \in Sessions |-> << >>]
  /\ offered_xlsx = [s \in Sessions |-> NoBook]
  /\ error = [s \in Sessions |-> ""]
  /\ pdfs = [n \in PdfNames |-> NoPdf]
  /\ csvs = [n \in CsvNames |-> NoCsv]
  /\ xlsx = NoXlsx

\* except Exception as e: st.error(...)
Raise(s, e) ==
  /\ pc' = [pc EXCEPT ![s] = "failed"]
  /\ error' = [error EXCEPT ![s] = e]

Goto(s, label) ==
  /\ pc' = [pc EXCEPT ![s] = label]
  /\ UNCHANGED error

\* ---- URL extraction handler (lines 101-137) ----

\* st.button("Extract Text from URL") with a URL entered.
ClickExtractUrl(s) ==
  /\ pc[s] = "idle"
  /\ \E c \in PdfContents : pdf_in' = [pdf_in EXCEPT ![s] = c]
  /\ pdf_file' = [pdf_file EXCEPT ![s] = "downloaded.pdf"]
  /\ Goto(s, "download")
  /\ UNCHANGED <<csv_in, extracted_text, calc, offered_csv, offered_xlsx, pdfs, csvs, xlsx>>

\* download_pdf: requests.get answers and the content is written.
DownloadPdf(s) ==
  /\ pc[s] = "download"
  /\ pdfs' = [pdfs EXCEPT ![pdf_file[s]] =
                [exists |-> TRUE, valid |-> pdf_in[s].valid, pages |-> pdf_in[s].pages]]
  /\ Goto(s, "extract")
  /\ UNCHANGED <<pdf_in, csv_in, pdf_file, extracted_text, calc, offered_csv, offered_xlsx, csvs, xlsx>>

\* download_pdf: requests.get raises (no connection); nothing is written.
DownloadFails(s) ==
  /\ pc[s] = "download"
  /\ Raise(s, "ConnectionError")
  /\ UNCHANGED <<pdf_in, csv_in, pdf_file, extracted_text, calc, offered_csv, offered_xlsx, pdfs, csvs, xlsx>>

\* ---- File-upload extraction handler (lines 146-183) ----

\* st.button("Extract Text from File") with a file uploaded.
ClickExtractFile(s) ==
  /\ pc[s] = "idle"
  /\ \E c \in PdfContents : pdf_in' = [pdf_in EXCEPT ![s] = c]
  /\ pdf_file' = [pdf_file EXCEPT ![s] = "uploaded.pdf"]
  /\ Goto(s, "save_upload")
  /\ UNCHANGED <<csv_in, extracted_text, calc, offered_csv, offered_xlsx, pdfs, csvs, xlsx>>

\* with open(pdf_file, "wb") as file: file.write(uploaded_file.getbuffer())
SaveUploadedPdf(s) ==
  /\ pc[s] = "save_upload"
  /\ pdfs' = [pdfs EXCEPT ![pdf_file[s]] =
                [exists |-> TRUE, valid |-> pdf_in[s].valid, pages |-> pdf_in[s].pages]]
  /\ Goto(s, "extract")
  /\ UNCHANGED <<pdf_in, csv_in, pdf_file, extracted_text, calc, offered_csv, offered_xlsx, csvs, xlsx>>

\* ---- Both extraction handlers ----

\* extracted_text = extract_text_from_pdf(pdf_file)
ExtractText(s) ==
  /\ pc[s] = "extract"
  /\ LET f == pdfs[pdf_file[s]]
     IN  IF ~f.exists THEN Raise(s, "FileNotFoundError") /\ UNCHANGED extracted_text
         ELSE IF ~f.valid THEN Raise(s, "PDFSyntaxError") /\ UNCHANGED extracted_text
         ELSE /\ extracted_text' = [extracted_text EXCEPT ![s] = extract_text_from_pdf(f.pages)]
              /\ Goto(s, "save_csv")
  /\ UNCHANGED <<pdf_in, csv_in, pdf_file, calc, offered_csv, offered_xlsx, pdfs, csvs, xlsx>>

\* save_to_csv(extracted_text, csv_file)
SaveCsv(s) ==
  /\ pc[s] = "save_csv"
  /\ csvs' = [csvs EXCEPT !["extracted_text.csv"] =
                [exists |-> TRUE, rows |-> save_to_csv(extracted_text[s])]]
  /\ Goto(s, "offer_csv")
  /\ UNCHANGED <<pdf_in, csv_in, pdf_file, extracted_text, calc, offered_csv, offered_xlsx, pdfs, xlsx>>

\* with open(csv_file, "rb") as file: st.download_button(data=file, ...)
OfferCsv(s) ==
  /\ pc[s] = "offer_csv"
  /\ LET f == csvs["extracted_text.csv"]
     IN  IF ~f.exists THEN Raise(s, "FileNotFoundError") /\ UNCHANGED offered_csv
         ELSE /\ offered_csv' = [offered_csv EXCEPT ![s] = f.rows]
              /\ Goto(s, "remove_pdf")
  /\ UNCHANGED <<pdf_in, csv_in, pdf_file, extracted_text, calc, offered_xlsx, pdfs, csvs, xlsx>>

\* os.remove(pdf_file)
RemovePdf(s) ==
  /\ pc[s] = "remove_pdf"
  /\ IF ~pdfs[pdf_file[s]].exists THEN Raise(s, "FileNotFoundError") /\ UNCHANGED pdfs
     ELSE /\ pdfs' = [pdfs EXCEPT ![pdf_file[s]] = NoPdf]
          /\ Goto(s, "done")
  /\ UNCHANGED <<pdf_in, csv_in, pdf_file, extracted_text, calc, offered_csv, offered_xlsx, csvs, xlsx>>

\* ---- TF-IDF upload handler (lines 190-219) ----

\* st.file_uploader(...) returns a CSV of at most n rows.
UploadCsv(s, n) ==
  /\ pc[s] = "idle"
  /\ \E c \in CsvUploads(n) : csv_in' = [csv_in EXCEPT ![s] = c]
  /\ Goto(s, "write_csv")
  /\ UNCHANGED <<pdf_in, pdf_file, extracted_text, calc, offered_csv, offered_xlsx, pdfs, csvs, xlsx>>

\* The user uploads the CSV an extraction run of the session has offered;
\* the script reruns and reaches the TF-IDF upload handler.
UploadOfferedCsv(s) ==
  /\ pc[s] = "done"
  /\ pdf_file[s] # ""
  /\ calc[s] = NoCalc
  /\ csv_in' = [csv_in EXCEPT ![s] = offered_csv[s]]
  /\ Goto(s, "write_csv")
  /\ UNCHANGED <<pdf_in, pdf_file, extracted_text, calc, offered_csv, offered_xlsx, pdfs, csvs, xlsx>>

\* with open("uploaded_text.csv", "wb") as file: file.write(uploaded_csv.getbuffer())
WriteUploadedCsv(s) ==
  /\ pc[s] = "write_csv"
  /\ csvs' = [csvs EXCEPT !["uploaded_text.csv"] = [exists |-> TRUE, rows |-> csv_in[s]]]
  /\ Goto(s, "calculate")
  /\ UNCHANGED <<pdf_in, csv_in, pdf_file, extracted_text, calc, offered_csv, offered_xlsx, pdfs, xlsx>>

\* calculate_tf_idf, lines 33-55: read the CSV and build the DataFrames.
Calculate(s) ==
  /\ pc[s] = "calculate"
  /\ LET f == csvs["uploaded_text.csv"]
         r == calculate_tf_idf(f.rows)
     IN  IF ~f.exists THEN Raise(s, "FileNotFoundError") /\ UNCHANGED calc
         ELSE /\ calc' = [calc EXCEPT ![s] = r]
              /\ IF r.raised THEN Raise(s, r.error) ELSE Goto(s, "write_xlsx")
  /\ UNCHANGED <<pdf_in, csv_in, pdf_file, extracted_text, offered_csv, offered_xlsx, pdfs, csvs, xlsx>>

\* calculate_tf_idf, lines 58-62: write the four sheets.
WriteXlsx(s) ==
  /\ pc[s] = "write_xlsx"
  /\ xlsx' = [exists |-> TRUE, book |-> calc[s].book]
  /\ Goto(s, "offer_xlsx")
  /\ UNCHANGED <<pdf_in, csv_in, pdf_file, extracted_text, calc, offered_csv, offered_xlsx, pdfs, csvs>>

\* with open(tf_idf_csv_file, "rb") as file: st.download_button(data=file, ...)
OfferXlsx(s) ==
  /\ pc[s] = "offer_xlsx"
  /\ IF ~xlsx.exists THEN Raise(s, "FileNotFoundError") /\ UNCHANGED offered_xlsx
     ELSE /\ offered_xlsx' = [offered_xlsx EXCEPT ![s] = xlsx.book]
          /\ Goto(s, "remove_csv")
  /\ UNCHANGED <<pdf_in, csv_in, pdf_file, extracted_text, calc, offered_csv, pdfs, csvs, xlsx>>

\* os.remove("uploaded_text.csv")
RemoveCsv(s) ==
  /\ pc[s] = "remove_csv"
  /\ IF ~csvs["uploaded_text.csv"].exists THEN Raise(s, "FileNotFoundError") /\ UNCHANGED csvs
     ELSE /\ csvs' = [csvs EXCEPT !["uploaded_text.csv"] = NoCsv]
          /\ Goto(s, "remove_xlsx")
  /\ UNCHANGED <<pdf_in, csv_in, pdf_file, extracted_text, calc, offered_csv, offered_xlsx, pdfs, xlsx>>

\* os.remove(tf_idf_csv_file)
RemoveXlsx(s) ==
  /\ pc[s] = "remove_xlsx"
  /\ IF ~xlsx.exists THEN Raise(s, "FileNotFoundError") /\ UNCHANGED xlsx
     ELSE /\ xlsx' = NoXlsx
          /\ Goto(s, "done")
  /\ UNCHANGED <<pdf_in, csv_in, pdf_file, extracted_text, calc, offered_csv, offered_xlsx, pdfs, csvs>>

\* ------------------------------------------------------------------------
\* Specifications
\* ------------------------------------------------------------------------

\* One session runs one of the three handlers, and may then feed the CSV of
\* an extraction run to the TF-IDF upload handler.
Next ==
  \/ ClickExtractUrl(1)
  \/ DownloadPdf(1)
  \/ DownloadFails(1)
  \/ ClickExtractFile(1)
  \/ SaveUploadedPdf(1)
  \/ ExtractText(1)
  \/ SaveCsv(1)
  \/ OfferCsv(1)
  \/ RemovePdf(1)
  \/ UploadCsv(1, MaxPages)
  \/ UploadOfferedCsv(1)
  \/ WriteUploadedCsv(1)
  \/ Calculate(1)
  \/ WriteXlsx(1)
  \/ OfferXlsx(1)
  \/ RemoveCsv(1)
  \/ RemoveXlsx(1)

Spec == Init /\ [][Next]_vars

\* Two sessions run the TF-IDF upload handler, their statements interleaved
\* (Streamlit runs each session's script in a thread of its own).
NextConcurrent ==
  \E s \in Sessions :
    \/ UploadCsv(s, MaxConcRows)
    \/ WriteUploadedCsv(s)
    \/ Calculate(s)
    \/ WriteXlsx(s)
    \/ OfferXlsx(s)
    \/ RemoveCsv(s)
    \/ RemoveXlsx(s)

SpecConcurrent == Init /\ [][NextConcurrent]_vars

\* ------------------------------------------------------------------------
\* Properties
\* ------------------------------------------------------------------------

\* Session s has run calculate_tf_idf and it has produced the four sheets.
Produced(s) == calc[s] # NoCalc /\ ~calc[s].raised

\* extract_text_from_pdf has returned in session s.
Extracted(s) ==
  /\ pdf_file[s] # ""
  /\ pc[s] \notin {"idle", "download", "save_upload", "extract"}
  /\ error[s] \notin {"ConnectionError", "PDFSyntaxError"}

\* The token lists of the documents.
Tokens(docs) == [d \in 1..Len(docs) |-> Tokenize(docs[d].text)]

\* df[t]: the number of documents, given by their token lists, in which the
\* term occurs.
Df(term, toks) == Cardinality({d \in 1..Len(toks) : Contains(toks[d], term)})

\* The distinct terms of the token lists.
TermSet(toks) == UNION {{toks[d][k] : k \in 1..Len(toks[d])} : d \in 1..Len(toks)}

Abs(x) == IF x < 0 THEN -x ELSE x

\* C1: the "TF" sheet has one row per document, one column per vocabulary
\* term, and each cell is the raw count of the term in the document.
C1_TFIsRawCount ==
  \A s \in Sessions : Produced(s) =>
    LET docs == calc[s].docs
        TF   == calc[s].book.TF
    IN  /\ Len(TF.rows) = Len(docs)
        /\ \A d \in 1..Len(docs) :
             /\ Len(TF.rows[d]) = Len(TF.columns)
             /\ \A j \in 1..Len(TF.columns) :
                  TF.rows[d][j] = Scale * CountOf(TF.columns[j], Tokenize(docs[d].text))

\* C2: on the written sheets, TFIDF[d][t] = TF[d][t] * IDF[t] (to within
\* one fixed-point unit).
C2_TfidfIsProductOfSheets ==
  \A s \in Sessions : Produced(s) =>
    LET book == calc[s].book
    IN  \A d \in 1..Len(book.TFIDF.rows) : \A j \in 1..Len(book.TFIDF.columns) :
          Abs(book.TFIDF.rows[d][j] * Scale - book.TF.rows[d][j] * book.IDF.rows[1][j]) <= Scale

\* The documents yield no token at all.
ZeroTokens(docs) == \A d \in 1..Len(docs) : Tokenize(docs[d].text) = << >>

\* C3: on a corpus with zero tokens in total the computation does not raise
\* and returns N x 0 matrices and empty vectors.
C3_EmptyVocabularyDoesNotFail ==
  \A s \in Sessions : (calc[s] # NoCalc /\ ZeroTokens(calc[s].docs)) =>
    /\ ~calc[s].raised
    /\ pc[s] # "failed"
    /\ Len(calc[s].book.TF.rows) = Len(calc[s].docs)
    /\ calc[s].book.TF.columns = << >>

\* C4: extract_text_from_pdf returns one record per page, numbered 1..P in
\* page order, whatever text extraction returned for the pages.
C4_OneRecordPerPage ==
  \A s \in Sessions : Extracted(s) =>
    /\ Len(extracted_text[s]) = Len(pdf_in[s].pages)
    /\ \A k \in 1..Len(extracted_text[s]) :
         /\ extracted_text[s][k].page = k
         /\ k <= Len(pdf_in[s].pages) => extracted_text[s][k].text = pdf_in[s].pages[k]

\* A three-record result with a page without text before a page with text.
C4_Witness ==
  \E s \in Sessions :
    /\ Extracted(s)
    /\ Len(extracted_text[s]) >= 3
    /\ pdf_in[s].pages[1].isnull
    /\ ~pdf_in[s].pages[2].isnull
    /\ extracted_text[s][3].page = 3

C6_OccurrencesAreDocumentFrequency ==
  \A s \in Sessions : Produced(s) =>
    LET toks == Tokens(calc[s].docs)
        book == calc[s].book
    IN  /\ Len(book.Occurrences.rows) = 1
        /\ Len(book.Occurrences.rows[1]) = Len(book.Occurrences.columns)
        /\ \A j \in 1..Len(book.Occurrences.columns) :
             /\ book.Occurrences.rows[1][j] = Df(book.Occurrences.columns[j], toks)
             /\ book.Occurrences.rows[1][j] =
                  Cardinality({d \in 1..Len(book.TF.rows) : book.TF.rows[d][j] > 0})

\* A term found in two or more documents but not in all of them.
C6_Witness ==
  \E s \in Sessions :
    /\ Produced(s)
    /\ \E j \in 1..Len(calc[s].book.Occurrences.columns) :
         /\ calc[s].book.Occurrences.rows[1][j] >= 2
         /\ calc[s].book.Occurrences.rows[1][j] < Len(calc[s].docs)

\* C7: IDF[t] = ln((1 + N) / (1 + df[t])) + 1, so IDF[t] > 0, and
\* IDF[t] = 1 exactly when df[t] = N.
C7_SmoothedIdf ==
  \A s \in Sessions : Produced(s) =>
    LET toks == Tokens(calc[s].docs)
        IDF  == calc[s].book.IDF
        N    == Len(calc[s].docs)
    IN  /\ Len(IDF.rows) = 1
        /\ Len(IDF.rows[1]) = Len(IDF.columns)
        /\ \A j \in 1..Len(IDF.columns) :
             LET df == Df(IDF.columns[j], toks)
             IN  /\ IDF.rows[1][j] = Ln(1 + N, 1 + df) + Scale
                 /\ IDF.rows[1][j] > 0
                 /\ (IDF.rows[1][j] = Scale) <=> (df = N)

\* Two or more documents, one term in all of them and one term not.
C7_Witness ==
  \E s \in Sessions :
    /\ Produced(s)
    /\ Len(calc[s].docs) >= 2
    /\ \E j, k \in 1..Len(calc[s].book.IDF.columns) :
         /\ Df(calc[s].book.IDF.columns[j], Tokens(calc[s].docs)) = Len(calc[s].docs)
         /\ calc[s].book.IDF.rows[1][j] = Scale
         /\ Df(calc[s].book.IDF.columns[k], Tokens(calc[s].docs)) < Len(calc[s].docs)
         /\ calc[s].book.IDF.rows[1][k] > Scale

\* C8: the vocabulary is the set of distinct terms of the documents, without
\* duplicates, in ascending lexicographic order, and it is the header of all
\* four sheets, whose column j holds the values of term j.
C8_VocabularySortedAndShared ==
  \A s \in Sessions : Produced(s) =>
    LET toks  == Tokens(calc[s].docs)
        book  == calc[s].book
        terms == book.TF.columns
    IN  /\ {terms[j] : j \in 1..Len(terms)} = TermSet(toks)
        /\ \A j \in 1..Len(terms) : Df(terms[j], toks) >= 1
        /\ \A j \in 1..(Len(terms) - 1) : LexLess(terms[j], terms[j + 1])
        /\ \A i, j \in 1..Len(terms) : i # j => terms[i] # terms[j]
        /\ book.IDF.columns = terms
        /\ book.TFIDF.columns = terms
        /\ book.Occurrences.columns = terms
        /\ \A j \in 1..Len(terms) :
             /\ book.Occurrences.rows[1][j] = Df(terms[j], toks)
             /\ book.IDF.rows[1][j] = Idf(Len(toks), Df(terms[j], toks))
             /\ \A d \in 1..Len(toks) :
                  /\ (book.TF.rows[d][j] > 0) <=> Contains(toks[d], terms[j])
                  /\ (book.TFIDF.rows[d][j] > 0) <=> Contains(toks[d], terms[j])

\* A vocabulary of three or more terms first seen in another order.
C8_Witness ==
  \E s \in Sessions :
    /\ Produced(s)
    /\ Len(calc[s].book.TF.columns) >= 3
    /\ FirstSeen(<< >>, calc[s].docs) # calc[s].book.TF.columns

\* C9: each session's delivered workbook is the one computed from its own
\* upload, and a session fails only if its own upload makes the computation
\* raise.
C9_SessionsIsolated ==
  \A s \in Sessions :
    /\ pc[s] \in {"remove_csv", "remove_xlsx", "done"} =>
         offered_xlsx[s] = calculate_tf_idf(csv_in[s]).book
    /\ pc[s] = "failed" =>
         /\ calculate_tf_idf(csv_in[s]).raised
         /\ error[s] = calculate_tf_idf(csv_in[s]).error

\* The temporary files of the handlers.
TempFilesRemoved ==
  /\ \A n \in PdfNames : ~pdfs[n].exists
  /\ ~csvs["uploaded_text.csv"].exists
  /\ ~xlsx.exists

\* C10: when a run has ended, by success or by an error, its temporary files
\* are removed.
C10_TempFilesRemovedAtEnd ==
  \A s \in Sessions : pc[s] \in {"done", "failed"} => TempFilesRemoved

=============================================================================
